---- MODULE Spec2Model ----
(***************************************************************************)
(* Model of schedsim.py: a single-processor job scheduling simulator with  *)
(* three policies (FIFO, round-robin, SRTN), its job loader and its        *)
(* metrics reporter.  One action per handler / loop iteration.             *)
(*                                                                         *)
(* Python lists are 0-based; TLA+ sequences are 1-based.  Index values     *)
(* held by the program (current_job_index, job_number) keep their 0-based  *)
(* values; object references (entries of completed_jobs, the local         *)
(* `scheduled` of SRTN) are modelled as 1-based positions in job_list,     *)
(* since every Job object lives in job_list and is aliased, never copied.  *)
(***************************************************************************)
EXTENDS Integers, Sequences, FiniteSets, TLC

VARIABLES job_list, completed_jobs, num_jobs, num_jobs_completed, schedule,
          quantum, total_time, print_str, current_job_index, scheduled,
          pc, stat_result

vars == <<job_list, completed_jobs, num_jobs, num_jobs_completed, schedule,
          quantum, total_time, print_str, current_job_index, scheduled,
          pc, stat_result>>

----------------------------------------------------------------------------
(* Bounds of the model *)

MaxJobs == 3
MaxBurst == 2
MaxArrival == 2
MaxQuantum == 2
MaxNegQuantum == 1
MaxOvershoot == 2

(* The worked example of the documentation: lines "<burst> <arrival>". *)
ExampleLines == << <<5, 0>>, <<3, 1>>, <<8, 2>> >>

Quanta == (0 - MaxNegQuantum) .. MaxQuantum

Line == (0 .. MaxBurst) \X (0 .. MaxArrival)

InputFiles ==
  UNION { [1 .. n -> Line] : n \in 0 .. MaxJobs } \cup { ExampleLines }

Algorithms == {"fifo", "rr", "srtn"}

(* trace label of an idle tick, "[--]"; a running tick "[P<n>]" is n *)
Idle == -1

----------------------------------------------------------------------------
(* Job *)

Job(arrival_time, run_time, job_number) ==
  [ arrival_time         |-> arrival_time,
    remaining_burst_time |-> run_time,
    total_run_time       |-> run_time,
    job_number           |-> job_number,
    first_time_running   |-> -1,
    completion_time      |-> -1,
    is_first_run         |-> TRUE ]

compute_turnaround_time(job) == job.completion_time - job.arrival_time

compute_response_time(job) == job.first_time_running - job.arrival_time

compute_wait_time(job) == compute_turnaround_time(job) - job.total_run_time

(* the elements of a sequence *)
Range(s) == { s[i] : i \in 1 .. Len(s) }

(* variant of InsertByKey: equal keys are exchanged (the sort is not stable) *)
RECURSIVE InsertByKey_unstable(_, _, _)
InsertByKey_unstable(s, x, key) ==
  IF s = << >> THEN << x >>
  ELSE IF key[x] <= key[s[Len(s)]]
       THEN Append(InsertByKey_unstable(SubSeq(s, 1, Len(s) - 1), x, key), s[Len(s)])
       ELSE Append(s, x)

(* list.sort(key=...): stable insertion of x into the sorted sequence s;  *)
(* key is the function from elements to their sort keys                   *)
RECURSIVE InsertByKey(_, _, _)
InsertByKey(s, x, key) ==
  IF s = << >> THEN << x >>
  ELSE IF key[x] < key[s[Len(s)]]
       THEN Append(InsertByKey(SubSeq(s, 1, Len(s) - 1), x, key), s[Len(s)])
       ELSE Append(s, x)

RECURSIVE SortByKey(_, _)
SortByKey(s, key) ==
  IF s = << >> THEN << >>
  ELSE InsertByKey(SortByKey(SubSeq(s, 1, Len(s) - 1), key), s[Len(s)], key)

read_jobs(lines) ==
  LET jobs == [ index \in 1 .. Len(lines) |->
                  Job(lines[index][2], lines[index][1], index - 1) ]
  IN  SortByKey(jobs, [ job \in Range(jobs) |-> job.arrival_time ])

----------------------------------------------------------------------------
(* Helpers for Python built-ins *)

(* "[P<n>]" * count : the empty string when count <= 0 *)
RECURSIVE Repeat(_, _)
Repeat(label, count) ==
  IF count <= 0 THEN << >> ELSE << label >> \o Repeat(label, count - 1)

(* variant of MinByKey: the comparison is reversed *)
RECURSIVE MinByKey_reversed(_, _)
MinByKey_reversed(refs, key) ==
  IF Len(refs) = 1 THEN refs[1]
  ELSE LET best == MinByKey_reversed(SubSeq(refs, 1, Len(refs) - 1), key)
       IN  IF key[refs[Len(refs)]] > key[best] THEN refs[Len(refs)] ELSE best

(* variant of MinByKey: among equal keys the last element wins *)
RECURSIVE MinByKey_last(_,_)
MinByKey_last(refs, key) ==
  IF Len(refs) = 1 THEN refs[1]
  ELSE LET best == MinByKey_last(SubSeq(refs, 1, Len(refs) - 1), key)
       IN  IF key[refs[Len(refs)]] <= key[best] THEN refs[Len(refs)] ELSE best

(* min(refs, key=...) : the first element with the least key *)
RECURSIVE MinByKey(_, _)
MinByKey(refs, key) ==
  IF Len(refs) = 1 THEN refs[1]
  ELSE LET best == MinByKey(SubSeq(refs, 1, Len(refs) - 1), key)
       IN  IF key[refs[Len(refs)]] < key[best] THEN refs[Len(refs)] ELSE best

(* the references 1..n of a job list, in list order *)
Refs(jobs) == [ i \in 1 .. Len(jobs) |-> i ]

----------------------------------------------------------------------------
(* The scheduler object together with the locals of the running policy *)

St ==
  [ job_list           |-> job_list,
    completed_jobs     |-> completed_jobs,
    num_jobs           |-> num_jobs,
    num_jobs_completed |-> num_jobs_completed,
    quantum            |-> quantum,
    total_time         |-> total_time,
    print_str          |-> print_str,
    current_job_index  |-> current_job_index,
    scheduled          |-> scheduled ]

Becomes(s) ==
  /\ job_list' = s.job_list
  /\ completed_jobs' = s.completed_jobs
  /\ num_jobs' = s.num_jobs
  /\ num_jobs_completed' = s.num_jobs_completed
  /\ quantum' = s.quantum
  /\ total_time' = s.total_time
  /\ print_str' = s.print_str
  /\ current_job_index' = s.current_job_index
  /\ scheduled' = s.scheduled

(* while self.num_jobs != self.num_jobs_completed *)
LoopCondition(s) == s.num_jobs # s.num_jobs_completed

----------------------------------------------------------------------------
(* scheduler_fifo: one iteration of the while loop *)

(* variant of fifo_body: the arrival check of line 97 is missing *)
fifo_body_no_wait(s) ==
  LET ref == s.current_job_index + 1
      job == s.job_list[ref]
  IN  IF FALSE
      THEN [ s EXCEPT !.total_time = @ + 1,
                      !.print_str = Append(@, Idle) ]
      ELSE LET end == s.total_time + job.remaining_burst_time
           IN  [ s EXCEPT
                   !.job_list[ref] =
                       [ job EXCEPT !.first_time_running = s.total_time,
                                    !.completion_time = end,
                                    !.remaining_burst_time = 0 ],
                   !.total_time = end,
                   !.print_str = @ \o Repeat(job.job_number, job.remaining_burst_time),
                   !.num_jobs_completed = @ + 1,
                   !.completed_jobs = Append(@, ref),
                   !.current_job_index = @ + 1 ]

(* variant of fifo_body: lines 103 and 104 are exchanged *)
fifo_body_early_completion(s) ==
  LET ref == s.current_job_index + 1
      job == s.job_list[ref]
  IN  IF s.total_time < job.arrival_time
      THEN [ s EXCEPT !.total_time = @ + 1,
                      !.print_str = Append(@, Idle) ]
      ELSE LET end == s.total_time + job.remaining_burst_time
           IN  [ s EXCEPT
                   !.job_list[ref] =
                       [ job EXCEPT !.first_time_running = s.total_time,
                                    !.completion_time = s.total_time,
                                    !.remaining_burst_time = 0 ],
                   !.total_time = end,
                   !.print_str = @ \o Repeat(job.job_number, job.remaining_burst_time),
                   !.num_jobs_completed = @ + 1,
                   !.completed_jobs = Append(@, ref),
                   !.current_job_index = @ + 1 ]

fifo_body(s) ==
  LET ref == s.current_job_index + 1
      job == s.job_list[ref]
  IN  IF s.total_time < job.arrival_time
      THEN [ s EXCEPT !.total_time = @ + 1,
                      !.print_str = Append(@, Idle) ]
      ELSE LET end == s.total_time + job.remaining_burst_time
           IN  [ s EXCEPT
                   !.job_list[ref] =
                       [ job EXCEPT !.first_time_running = s.total_time,
                                    !.completion_time = end,
                                    !.remaining_burst_time = 0 ],
                   !.total_time = end,
                   !.print_str = @ \o Repeat(job.job_number, job.remaining_burst_time),
                   !.num_jobs_completed = @ + 1,
                   !.completed_jobs = Append(@, ref),
                   !.current_job_index = @ + 1 ]

(* scheduler_fifo run to its return on the scheduler s *)
RECURSIVE fifo_loop(_)
fifo_loop(s) == IF LoopCondition(s) THEN fifo_loop(fifo_body(s)) ELSE s

scheduler_fifo(s) ==
  IF Len(s.job_list) = 0 THEN s
  ELSE fifo_loop([ s EXCEPT !.current_job_index = 0 ])

(* scheduler_rr: one iteration of the while loop *)

(* variant of rr_body: the test of line 133 reads >= for <= *)
rr_body_reversed_test(s) ==
  LET ref == s.current_job_index + 1
      job == s.job_list[ref]
      (* lines 128-130 *)
      started == IF job.is_first_run
                 THEN [ job EXCEPT !.first_time_running = s.total_time,
                                   !.is_first_run = FALSE ]
                 ELSE job
      remaining == started.remaining_burst_time
      (* lines 147-150 *)
      next == IF s.current_job_index = s.num_jobs - 1
              THEN 0 ELSE s.current_job_index + 1
  IN  IF s.total_time < job.arrival_time
      THEN [ s EXCEPT !.total_time = @ + 1,
                      !.print_str = Append(@, Idle) ]
      ELSE IF remaining >= s.quantum /\ remaining > 0
      THEN [ s EXCEPT
               !.job_list[ref] =
                   [ started EXCEPT !.completion_time = s.total_time + remaining,
                                    !.remaining_burst_time = 0 ],
               !.total_time = @ + remaining,
               !.print_str = @ \o Repeat(job.job_number, remaining),
               !.completed_jobs = Append(@, ref),
               !.num_jobs_completed = @ + 1,
               !.current_job_index = next ]
      ELSE IF remaining > 0
      THEN [ s EXCEPT
               !.job_list[ref] =
                   [ started EXCEPT !.remaining_burst_time = @ - s.quantum ],
               !.total_time = @ + s.quantum,
               !.print_str = @ \o Repeat(job.job_number, s.quantum),
               !.current_job_index = next ]
      ELSE [ s EXCEPT !.job_list[ref] = started,
                      !.current_job_index = next ]

(* variant of rr_body: line 133 lacks the comparison with the quantum *)
rr_body_no_slice(s) ==
  LET ref == s.current_job_index + 1
      job == s.job_list[ref]
      (* lines 128-130 *)
      started == IF job.is_first_run
                 THEN [ job EXCEPT !.first_time_running = s.total_time,
                                   !.is_first_run = FALSE ]
                 ELSE job
      remaining == started.remaining_burst_time
      (* lines 147-150 *)
      next == IF s.current_job_index = s.num_jobs - 1
              THEN 0 ELSE s.current_job_index + 1
  IN  IF s.total_time < job.arrival_time
      THEN [ s EXCEPT !.total_time = @ + 1,
                      !.print_str = Append(@, Idle) ]
      ELSE IF remaining > 0
      THEN [ s EXCEPT
               !.job_list[ref] =
                   [ started EXCEPT !.completion_time = s.total_time + remaining,
                                    !.remaining_burst_time = 0 ],
               !.total_time = @ + remaining,
               !.print_str = @ \o Repeat(job.job_number, remaining),
               !.completed_jobs = Append(@, ref),
               !.num_jobs_completed = @ + 1,
               !.current_job_index = next ]
      ELSE IF remaining > 0
      THEN [ s EXCEPT
               !.job_list[ref] =
                   [ started EXCEPT !.remaining_burst_time = @ - s.quantum ],
               !.total_time = @ + s.quantum,
               !.print_str = @ \o Repeat(job.job_number, s.quantum),
               !.current_job_index = next ]
      ELSE [ s EXCEPT !.job_list[ref] = started,
                      !.current_job_index = next ]

(* variant of rr_body: line 133 lacks the test remaining > 0 *)
rr_body_no_positive_test(s) ==
  LET ref == s.current_job_index + 1
      job == s.job_list[ref]
      (* lines 128-130 *)
      started == IF job.is_first_run
                 THEN [ job EXCEPT !.first_time_running = s.total_time,
                                   !.is_first_run = FALSE ]
                 ELSE job
      remaining == started.remaining_burst_time
      (* lines 147-150 *)
      next == IF s.current_job_index = s.num_jobs - 1
              THEN 0 ELSE s.current_job_index + 1
  IN  IF s.total_time < job.arrival_time
      THEN [ s EXCEPT !.total_time = @ + 1,
                      !.print_str = Append(@, Idle) ]
      ELSE IF remaining <= s.quantum
      THEN [ s EXCEPT
               !.job_list[ref] =
                   [ started EXCEPT !.completion_time = s.total_time + remaining,
                                    !.remaining_burst_time = 0 ],
               !.total_time = @ + remaining,
               !.print_str = @ \o Repeat(job.job_number, remaining),
               !.completed_jobs = Append(@, ref),
               !.num_jobs_completed = @ + 1,
               !.current_job_index = next ]
      ELSE IF remaining > 0
      THEN [ s EXCEPT
               !.job_list[ref] =
                   [ started EXCEPT !.remaining_burst_time = @ - s.quantum ],
               !.total_time = @ + s.quantum,
               !.print_str = @ \o Repeat(job.job_number, s.quantum),
               !.current_job_index = next ]
      ELSE [ s EXCEPT !.job_list[ref] = started,
                      !.current_job_index = next ]

(* variant of rr_body: line 128 is missing, every visit sets the first run time *)
rr_body_first_run_always(s) ==
  LET ref == s.current_job_index + 1
      job == s.job_list[ref]
      (* lines 128-130 *)
      started == IF TRUE
                 THEN [ job EXCEPT !.first_time_running = s.total_time,
                                   !.is_first_run = FALSE ]
                 ELSE job
      remaining == started.remaining_burst_time
      (* lines 147-150 *)
      next == IF s.current_job_index = s.num_jobs - 1
              THEN 0 ELSE s.current_job_index + 1
  IN  IF s.total_time < job.arrival_time
      THEN [ s EXCEPT !.total_time = @ + 1,
                      !.print_str = Append(@, Idle) ]
      ELSE IF remaining <= s.quantum /\ remaining > 0
      THEN [ s EXCEPT
               !.job_list[ref] =
                   [ started EXCEPT !.completion_time = s.total_time + remaining,
                                    !.remaining_burst_time = 0 ],
               !.total_time = @ + remaining,
               !.print_str = @ \o Repeat(job.job_number, remaining),
               !.completed_jobs = Append(@, ref),
               !.num_jobs_completed = @ + 1,
               !.current_job_index = next ]
      ELSE IF remaining > 0
      THEN [ s EXCEPT
               !.job_list[ref] =
                   [ started EXCEPT !.remaining_burst_time = @ - s.quantum ],
               !.total_time = @ + s.quantum,
               !.print_str = @ \o Repeat(job.job_number, s.quantum),
               !.current_job_index = next ]
      ELSE [ s EXCEPT !.job_list[ref] = started,
                      !.current_job_index = next ]

(* variant of rr_body: the continue of line 125 is missing, an idle tick also advances the index *)
rr_body_idle_advances(s) ==
  LET ref == s.current_job_index + 1
      job == s.job_list[ref]
      (* lines 128-130 *)
      started == IF job.is_first_run
                 THEN [ job EXCEPT !.first_time_running = s.total_time,
                                   !.is_first_run = FALSE ]
                 ELSE job
      remaining == started.remaining_burst_time
      (* lines 147-150 *)
      next == IF s.current_job_index = s.num_jobs - 1
              THEN 0 ELSE s.current_job_index + 1
  IN  IF s.total_time < job.arrival_time
      THEN [ s EXCEPT !.total_time = @ + 1,
                      !.print_str = Append(@, Idle),
                      !.current_job_index = next ]
      ELSE IF remaining <= s.quantum /\ remaining > 0
      THEN [ s EXCEPT
               !.job_list[ref] =
                   [ started EXCEPT !.completion_time = s.total_time + remaining,
                                    !.remaining_burst_time = 0 ],
               !.total_time = @ + remaining,
               !.print_str = @ \o Repeat(job.job_number, remaining),
               !.completed_jobs = Append(@, ref),
               !.num_jobs_completed = @ + 1,
               !.current_job_index = next ]
      ELSE IF remaining > 0
      THEN [ s EXCEPT
               !.job_list[ref] =
                   [ started EXCEPT !.remaining_burst_time = @ - s.quantum ],
               !.total_time = @ + s.quantum,
               !.print_str = @ \o Repeat(job.job_number, s.quantum),
               !.current_job_index = next ]
      ELSE [ s EXCEPT !.job_list[ref] = started,
                      !.current_job_index = next ]

(* variant of rr_body: the test of line 122 reads <= for < *)
rr_body_idle_inclusive(s) ==
  LET ref == s.current_job_index + 1
      job == s.job_list[ref]
      (* lines 128-130 *)
      started == IF job.is_first_run
                 THEN [ job EXCEPT !.first_time_running = s.total_time,
                                   !.is_first_run = FALSE ]
                 ELSE job
      remaining == started.remaining_burst_time
      (* lines 147-150 *)
      next == IF s.current_job_index = s.num_jobs - 1
              THEN 0 ELSE s.current_job_index + 1
  IN  IF s.total_time <= job.arrival_time
      THEN [ s EXCEPT !.total_time = @ + 1,
                      !.print_str = Append(@, Idle) ]
      ELSE IF remaining <= s.quantum /\ remaining > 0
      THEN [ s EXCEPT
               !.job_list[ref] =
                   [ started EXCEPT !.completion_time = s.total_time + remaining,
                                    !.remaining_burst_time = 0 ],
               !.total_time = @ + remaining,
               !.print_str = @ \o Repeat(job.job_number, remaining),
               !.completed_jobs = Append(@, ref),
               !.num_jobs_completed = @ + 1,
               !.current_job_index = next ]
      ELSE IF remaining > 0
      THEN [ s EXCEPT
               !.job_list[ref] =
                   [ started EXCEPT !.remaining_burst_time = @ - s.quantum ],
               !.total_time = @ + s.quantum,
               !.print_str = @ \o Repeat(job.job_number, s.quantum),
               !.current_job_index = next ]
      ELSE [ s EXCEPT !.job_list[ref] = started,
                      !.current_job_index = next ]

(* variant of rr_body: line 142 advances the clock by 1 instead of the quantum *)
rr_body_slice_clock(s) ==
  LET ref == s.current_job_index + 1
      job == s.job_list[ref]
      (* lines 128-130 *)
      started == IF job.is_first_run
                 THEN [ job EXCEPT !.first_time_running = s.total_time,
                                   !.is_first_run = FALSE ]
                 ELSE job
      remaining == started.remaining_burst_time
      (* lines 147-150 *)
      next == IF s.current_job_index = s.num_jobs - 1
              THEN 0 ELSE s.current_job_index + 1
  IN  IF s.total_time < job.arrival_time
      THEN [ s EXCEPT !.total_time = @ + 1,
                      !.print_str = Append(@, Idle) ]
      ELSE IF remaining <= s.quantum /\ remaining > 0
      THEN [ s EXCEPT
               !.job_list[ref] =
                   [ started EXCEPT !.completion_time = s.total_time + remaining,
                                    !.remaining_burst_time = 0 ],
               !.total_time = @ + remaining,
               !.print_str = @ \o Repeat(job.job_number, remaining),
               !.completed_jobs = Append(@, ref),
               !.num_jobs_completed = @ + 1,
               !.current_job_index = next ]
      ELSE IF remaining > 0
      THEN [ s EXCEPT
               !.job_list[ref] =
                   [ started EXCEPT !.remaining_burst_time = @ - s.quantum ],
               !.total_time = @ + 1,
               !.print_str = @ \o Repeat(job.job_number, s.quantum),
               !.current_job_index = next ]
      ELSE [ s EXCEPT !.job_list[ref] = started,
                      !.current_job_index = next ]

rr_body(s) ==
  LET ref == s.current_job_index + 1
      job == s.job_list[ref]
      (* lines 128-130 *)
      started == IF job.is_first_run
                 THEN [ job EXCEPT !.first_time_running = s.total_time,
                                   !.is_first_run = FALSE ]
                 ELSE job
      remaining == started.remaining_burst_time
      (* lines 147-150 *)
      next == IF s.current_job_index = s.num_jobs - 1
              THEN 0 ELSE s.current_job_index + 1
  IN  IF s.total_time < job.arrival_time
      THEN [ s EXCEPT !.total_time = @ + 1,
                      !.print_str = Append(@, Idle) ]
      ELSE IF remaining <= s.quantum /\ remaining > 0
      THEN [ s EXCEPT
               !.job_list[ref] =
                   [ started EXCEPT !.completion_time = s.total_time + remaining,
                                    !.remaining_burst_time = 0 ],
               !.total_time = @ + remaining,
               !.print_str = @ \o Repeat(job.job_number, remaining),
               !.completed_jobs = Append(@, ref),
               !.num_jobs_completed = @ + 1,
               !.current_job_index = next ]
      ELSE IF remaining > 0
      THEN [ s EXCEPT
               !.job_list[ref] =
                   [ started EXCEPT !.remaining_burst_time = @ - s.quantum ],
               !.total_time = @ + s.quantum,
               !.print_str = @ \o Repeat(job.job_number, s.quantum),
               !.current_job_index = next ]
      ELSE [ s EXCEPT !.job_list[ref] = started,
                      !.current_job_index = next ]

(* scheduler_srtn: one iteration of the while loop *)

(* variant of filtered_jobs: line 174 reads < for <= *)
filtered_jobs_strict(jobs, time) ==
  SelectSeq(Refs(jobs), LAMBDA r : /\ jobs[r].arrival_time < time
                                   /\ jobs[r].remaining_burst_time > 0)

(* line 174: the arrived, unfinished jobs, in list order *)
filtered_jobs(jobs, time) ==
  SelectSeq(Refs(jobs), LAMBDA r : /\ jobs[r].arrival_time <= time
                                   /\ jobs[r].remaining_burst_time > 0)

srtn_body(s) ==
  LET ref == s.scheduled
      job == s.job_list[ref]
      (* lines 164-166 *)
      started == IF job.is_first_run
                 THEN [ job EXCEPT !.first_time_running = s.total_time,
                                   !.is_first_run = FALSE ]
                 ELSE job
  IN  IF s.total_time < job.arrival_time
      THEN [ s EXCEPT !.total_time = @ + 1,
                      !.print_str = Append(@, Idle) ]
      ELSE IF started.remaining_burst_time > 0
      THEN LET now == s.total_time + 1
               ticked == [ started EXCEPT !.remaining_burst_time = @ - 1 ]
               pool == filtered_jobs([ s.job_list EXCEPT ![ref] = ticked ], now)
               complete == ticked.remaining_burst_time = 0
               jobs == [ s.job_list EXCEPT ![ref] =
                           IF complete
                           THEN [ ticked EXCEPT !.completion_time = now ]
                           ELSE ticked ]
           IN  [ s EXCEPT
                   !.job_list = jobs,
                   !.total_time = now,
                   !.print_str = Append(@, job.job_number),
                   !.completed_jobs = IF complete THEN Append(@, ref) ELSE @,
                   !.num_jobs_completed = IF complete THEN @ + 1 ELSE @,
                   !.scheduled =
                       IF Len(pool) > 0
                       THEN MinByKey(pool, [ r \in Range(pool) |->
                                               jobs[r].remaining_burst_time ])
                       ELSE @ ]
      ELSE [ s EXCEPT !.job_list[ref] = started ]

----------------------------------------------------------------------------
(* stat: the per-job rows and the totals the averages divide *)

RECURSIVE Sum(_)
Sum(s) == IF s = << >> THEN 0 ELSE s[Len(s)] + Sum(SubSeq(s, 1, Len(s) - 1))

stat_report(jobs, completed) ==
  LET sorted == SortByKey(completed, [ r \in Range(completed) |-> jobs[r].job_number ])
      turnarounds == [ i \in 1 .. Len(sorted) |-> compute_turnaround_time(jobs[sorted[i]]) ]
      waits == [ i \in 1 .. Len(sorted) |-> compute_wait_time(jobs[sorted[i]]) ]
  IN  [ outcome |-> IF Len(sorted) = 0 THEN "ZeroDivisionError" ELSE "printed",
        rows |-> [ i \in 1 .. Len(sorted) |->
                     << jobs[sorted[i]].job_number, turnarounds[i], waits[i] >> ],
        turnaround_total |-> Sum(turnarounds),
        waiting_total |-> Sum(waits),
        count |-> Len(sorted) ]

NoReport ==
  [ outcome |-> "none", rows |-> << >>, turnaround_total |-> 0,
    waiting_total |-> 0, count |-> 0 ]

----------------------------------------------------------------------------
(* State machine *)

(* Scheduler.__init__, with the quantum main passes from the command line *)
Init ==
  /\ job_list = << >>
  /\ completed_jobs = << >>
  /\ num_jobs = 0
  /\ num_jobs_completed = 0
  /\ schedule = "fifo"
  /\ quantum \in Quanta
  /\ total_time = 0
  /\ print_str = << >>
  /\ current_job_index = 0
  /\ scheduled = 0
  /\ pc = "constructed"
  /\ stat_result = NoReport

set_scheduling_func ==
  /\ pc = "constructed"
  /\ \E algorithm \in Algorithms : schedule' = algorithm
  /\ pc' = "configured"
  /\ UNCHANGED <<job_list, completed_jobs, num_jobs, num_jobs_completed,
                 quantum, total_time, print_str, current_job_index,
                 scheduled, stat_result>>

submit_jobs ==
  /\ pc = "configured"
  /\ \E lines \in InputFiles :
       LET jobs == read_jobs(lines)
       IN  /\ job_list' = job_list \o jobs
           /\ num_jobs' = num_jobs + Len(jobs)
  /\ pc' = "submitted"
  /\ UNCHANGED <<completed_jobs, num_jobs_completed, schedule, quantum,
                 total_time, print_str, current_job_index, scheduled,
                 stat_result>>

(* pc after a loop iteration or the loop's entry *)
Continue(s, label) == IF LoopCondition(s) THEN label ELSE "done"

scheduler_fifo_start ==
  /\ pc = "submitted"
  /\ schedule = "fifo"
  /\ IF Len(job_list) = 0
     THEN /\ pc' = "done"
          /\ UNCHANGED current_job_index
     ELSE /\ current_job_index' = 0
          /\ pc' = Continue(St, "fifo")
  /\ UNCHANGED <<job_list, completed_jobs, num_jobs, num_jobs_completed,
                 schedule, quantum, total_time, print_str, scheduled,
                 stat_result>>

scheduler_fifo_loop ==
  /\ pc = "fifo"
  /\ Becomes(fifo_body(St))
  /\ pc' = Continue(fifo_body(St), "fifo")
  /\ UNCHANGED <<schedule, stat_result>>

scheduler_rr_start ==
  /\ pc = "submitted"
  /\ schedule = "rr"
  /\ IF Len(job_list) = 0
     THEN /\ pc' = "done"
          /\ UNCHANGED current_job_index
     ELSE /\ current_job_index' = 0
          /\ pc' = Continue(St, "rr")
  /\ UNCHANGED <<job_list, completed_jobs, num_jobs, num_jobs_completed,
                 schedule, quantum, total_time, print_str, scheduled,
                 stat_result>>

(* Bound of the model: with a quantum below 1 the remaining burst of a job  *)
(* grows without limit; the run is followed until some job has grown by     *)
(* MaxOvershoot.                                                            *)
WithinOvershoot ==
  \A r \in 1 .. Len(job_list) :
    job_list[r].remaining_burst_time < job_list[r].total_run_time + MaxOvershoot

scheduler_rr_loop ==
  /\ pc = "rr"
  /\ WithinOvershoot
  /\ Becomes(rr_body(St))
  /\ pc' = Continue(rr_body(St), "rr")
  /\ UNCHANGED <<schedule, stat_result>>

(* variant of scheduler_srtn_start: the test of lines 153-154 is missing, *)
(* so that min() of line 156 raises on the empty list                    *)
scheduler_srtn_start_unguarded ==
  /\ pc = "submitted"
  /\ schedule = "srtn"
  /\ IF Len(job_list) = 0
     THEN /\ pc' = "ValueError"
          /\ UNCHANGED scheduled
     ELSE /\ scheduled' = MinByKey(Refs(job_list),
                                   [ r \in 1 .. Len(job_list) |->
                                       job_list[r].arrival_time ])
          /\ pc' = Continue(St, "srtn")
  /\ UNCHANGED <<job_list, completed_jobs, num_jobs, num_jobs_completed,
                 schedule, quantum, total_time, print_str, current_job_index,
                 stat_result>>

scheduler_srtn_start ==
  /\ pc = "submitted"
  /\ schedule = "srtn"
  /\ IF Len(job_list) = 0
     THEN /\ pc' = "done"
          /\ UNCHANGED scheduled
     ELSE /\ scheduled' = MinByKey(Refs(job_list),
                                   [ r \in 1 .. Len(job_list) |->
                                       job_list[r].arrival_time ])
          /\ pc' = Continue(St, "srtn")
  /\ UNCHANGED <<job_list, completed_jobs, num_jobs, num_jobs_completed,
                 schedule, quantum, total_time, print_str, current_job_index,
                 stat_result>>

scheduler_srtn_loop ==
  /\ pc = "srtn"
  /\ Becomes(srtn_body(St))
  /\ pc' = Continue(srtn_body(St), "srtn")
  /\ UNCHANGED <<schedule, stat_result>>

stat ==
  /\ pc = "done"
  /\ LET report == stat_report(job_list, completed_jobs)
     IN  /\ stat_result' = report
         /\ completed_jobs' =
              SortByKey(completed_jobs,
                        [ r \in Range(completed_jobs) |-> job_list[r].job_number ])
  /\ pc' = "exit"
  /\ UNCHANGED <<job_list, num_jobs, num_jobs_completed, schedule, quantum,
                 total_time, print_str, current_job_index, scheduled>>

Next ==
  \/ set_scheduling_func
  \/ submit_jobs
  \/ scheduler_fifo_start
  \/ scheduler_fifo_loop
  \/ scheduler_rr_start
  \/ scheduler_rr_loop
  \/ scheduler_srtn_start
  \/ scheduler_srtn_loop
  \/ stat

Spec == Init /\ [][Next]_vars

(* The program is sequential: whenever a statement can run, it does. *)
FairSpec == Spec /\ WF_vars(Next)

----------------------------------------------------------------------------
(* Vocabulary of the properties *)

JobRefs == 1 .. Len(job_list)

(* the sentinel -1 has been replaced / the first-run flag has been cleared *)
FirstRunSet(job) == job.first_time_running # -1 \/ ~job.is_first_run

Running == pc \in {"fifo", "rr", "srtn"}

Started == pc \in {"fifo", "rr", "srtn", "done", "exit"}

(* the <burst, arrival> pairs of the submitted jobs, in list order *)
Submitted ==
  [ r \in JobRefs |-> << job_list[r].total_run_time, job_list[r].arrival_time >> ]

IsExample == Submitted = ExampleLines

AllFinished ==
  /\ \A r \in JobRefs : job_list[r].remaining_burst_time = 0
  /\ num_jobs_completed = num_jobs
  /\ Len(completed_jobs) = num_jobs

(* C1: for every policy (round-robin with quantum >= 1) and every loaded   *)
(* job list, the scheduling loop terminates, and at termination every job  *)
(* has remaining burst 0 and the completed count equals the job count.     *)
C1_Terminates ==
  (quantum >= 1) => <>(pc = "done" /\ AllFinished)

(* C2: every job in the completed list has completion_time >=              *)
(* first_time_running >= arrival_time, and every job whose first run time  *)
(* is set has first_time_running >= arrival_time.                          *)
C2_TimesOrdered ==
  /\ \A k \in 1 .. Len(completed_jobs) :
       LET job == job_list[completed_jobs[k]]
       IN  /\ job.completion_time >= job.first_time_running
           /\ job.first_time_running >= job.arrival_time
  /\ \A r \in JobRefs :
       FirstRunSet(job_list[r]) =>
         job_list[r].first_time_running >= job_list[r].arrival_time

C2_Witness ==
  \E k \in 1 .. Len(completed_jobs) :
    LET job == job_list[completed_jobs[k]]
    IN  /\ job.completion_time > job.first_time_running
        /\ job.first_time_running > job.arrival_time

(* C3: under every policy (round-robin with quantum >= 1) every job keeps  *)
(* 0 <= remaining_burst_time <= total_run_time, and no step increases a    *)
(* job's remaining_burst_time.                                             *)
C3_RemainingBounded ==
  [][ (schedule' = "rr" => quantum' >= 1) =>
        \A r \in 1 .. Len(job_list') :
          /\ 0 <= job_list'[r].remaining_burst_time
          /\ job_list'[r].remaining_burst_time <= job_list'[r].total_run_time
          /\ r <= Len(job_list) =>
               job_list'[r].remaining_burst_time <= job_list[r].remaining_burst_time
    ]_vars

C3_Witness ==
  /\ schedule = "rr"
  /\ quantum >= 1
  /\ \E r \in JobRefs :
       /\ 0 < job_list[r].remaining_burst_time
       /\ job_list[r].remaining_burst_time < job_list[r].total_run_time

(* C4: under FIFO jobs complete in list order without preemption and the   *)
(* completion times obey the recurrence: the first job completes at        *)
(* arrival + burst; job i completes at completion[i-1] + burst[i] if it    *)
(* arrived by completion[i-1], else at arrival[i] + burst[i].  The example *)
(* jobs complete at 5, 8 and 16.                                           *)
C4_FifoRecurrence ==
  (schedule = "fifo" /\ pc \in {"fifo", "done"}) =>
    /\ completed_jobs = [ k \in 1 .. num_jobs_completed |-> k ]
    /\ \A r \in JobRefs :
         LET job == job_list[r]
         IN  IF r <= num_jobs_completed
             THEN /\ job.completion_time = job.first_time_running + job.total_run_time
                  /\ job.completion_time =
                       IF r > 1 /\ job.arrival_time <= job_list[r - 1].completion_time
                       THEN job_list[r - 1].completion_time + job.total_run_time
                       ELSE job.arrival_time + job.total_run_time
             ELSE /\ job.remaining_burst_time = job.total_run_time
                  /\ job.completion_time = -1
    /\ (IsExample /\ pc = "done") =>
         [ r \in JobRefs |-> job_list[r].completion_time ] = << 5, 8, 16 >>

C4_Witness ==
  /\ schedule = "fifo"
  /\ pc = "done"
  /\ \E r \in JobRefs :
       r > 1 /\ job_list[r].arrival_time > job_list[r - 1].completion_time
  /\ \E r \in JobRefs :
       /\ r > 1
       /\ job_list[r].arrival_time < job_list[r - 1].completion_time
       /\ job_list[r].total_run_time > 0

(* a fresh scheduler holding a fresh copy of the submitted jobs *)
FreshScheduler ==
  [ job_list           |-> [ r \in JobRefs |->
                               Job(job_list[r].arrival_time,
                                   job_list[r].total_run_time,
                                   job_list[r].job_number) ],
    completed_jobs     |-> << >>,
    num_jobs           |-> Len(job_list),
    num_jobs_completed |-> 0,
    quantum            |-> quantum,
    total_time         |-> 0,
    print_str          |-> << >>,
    current_job_index  |-> 0,
    scheduled          |-> 0 ]

(* the sum the reporter divides by the job count to get the average wait *)
WaitTotal(jobs) ==
  Sum([ r \in 1 .. Len(jobs) |-> compute_wait_time(jobs[r]) ])

(* C5: when the SRTN run of a job list has completed, its total (hence      *)
(* average) wait time is at most that of the completed FIFO run on a fresh *)
(* copy of the same list.                                                  *)
C5_SrtnWaitAtMostFifo ==
  (schedule = "srtn" /\ pc = "done") =>
    WaitTotal(job_list) <= WaitTotal(scheduler_fifo(FreshScheduler).job_list)

C5_Witness ==
  /\ schedule = "srtn"
  /\ pc = "done"
  /\ \E r \in JobRefs : job_list[r].arrival_time # job_list[1].arrival_time
  /\ \E r \in JobRefs : job_list[r].total_run_time # job_list[1].total_run_time
  /\ WaitTotal(job_list) < WaitTotal(scheduler_fifo(FreshScheduler).job_list)

(* the jobs that have arrived by the arrival time of job r, r included *)
PresentAtArrival(r) ==
  { x \in JobRefs : job_list[x].arrival_time <= job_list[r].arrival_time }

(* C6: under round-robin with quantum q >= 1 every job's response time     *)
(* first_time_running - arrival_time is at most (n - 1) * q, n the number  *)
(* of jobs that have arrived by the job's arrival time.                    *)
C6_RrResponseBound ==
  (schedule = "rr" /\ quantum >= 1) =>
    \A r \in JobRefs :
      FirstRunSet(job_list[r]) =>
        compute_response_time(job_list[r])
          <= (Cardinality(PresentAtArrival(r)) - 1) * quantum

C6_Witness ==
  /\ schedule = "rr"
  /\ quantum >= 1
  /\ \E r \in JobRefs :
       /\ FirstRunSet(job_list[r])
       /\ compute_response_time(job_list[r]) > 0
       /\ compute_response_time(job_list[r])
            = (Cardinality(PresentAtArrival(r)) - 1) * quantum

(* C7: a quantum below 1 is clamped to 1: every round-robin step taken     *)
(* with such a quantum leaves the clock, the trace, the jobs, the          *)
(* completed list and the rotation index as the step with quantum 1 does.  *)
C7_QuantumClamped ==
  [][ (pc = "rr" /\ quantum < 1) =>
        LET s == rr_body([ St EXCEPT !.quantum = 1 ])
        IN  /\ job_list' = s.job_list
            /\ completed_jobs' = s.completed_jobs
            /\ num_jobs_completed' = s.num_jobs_completed
            /\ total_time' = s.total_time
            /\ print_str' = s.print_str
            /\ current_job_index' = s.current_job_index
    ]_vars

(* C8: when no job has completed, the reporter ends in a "no data" outcome *)
(* and never divides by zero.                                              *)
C8_NoDataWhenEmpty ==
  (pc = "exit" /\ stat_result.count = 0) => stat_result.outcome = "no data"

(* C9: with an empty job list the scheduler returns at once under each      *)
(* policy, with clock 0, no completed job, completed count 0 and an empty  *)
(* trace.                                                                  *)
C9_EmptyListReturns ==
  [][ (pc = "submitted" /\ Len(job_list) = 0) =>
        /\ pc' = "done"
        /\ total_time' = 0
        /\ completed_jobs' = << >>
        /\ num_jobs_completed' = 0
        /\ print_str' = << >>
    ]_vars

C9_Witness ==
  /\ pc = "done"
  /\ num_jobs = 0
  /\ total_time = 0
  /\ print_str = << >>

(* C10 as stated: in the SRTN run of the example, job 1 is first           *)
(* dispatched at clock value 2, not earlier.                               *)
C10_PreemptsAtTick2 ==
  (IsExample /\ schedule = "srtn" /\ FirstRunSet(job_list[2])) =>
    job_list[2].first_time_running = 2

(* C10 amended: in the SRTN run of the example job 0 runs first, at clock  *)
(* 0; after its single tick, at clock 1, it has remaining burst 4 and job  *)
(* 1 (burst 3) is selected; job 1 is first dispatched at clock value 1.    *)
C10_PreemptsAtTick1 ==
  (IsExample /\ schedule = "srtn" /\ Started) =>
    /\ total_time = 0 => scheduled = 1
    /\ total_time >= 1 => job_list[1].first_time_running = 0
    /\ total_time = 1 => /\ job_list[1].remaining_burst_time = 4
                         /\ scheduled = 2
                         /\ print_str = << 0 >>
    /\ FirstRunSet(job_list[2]) => job_list[2].first_time_running = 1
    /\ total_time >= 2 => FirstRunSet(job_list[2])

C10_Witness ==
  /\ IsExample
  /\ schedule = "srtn"
  /\ job_list[2].first_time_running = 1
  /\ job_list[1].remaining_burst_time = 4


(* no element occurs twice in the sequence *)
NoDuplicates(s) == \A i, j \in 1 .. Len(s) : s[i] = s[j] => i = j

(* C11: during a run the completed list only grows by appending: no job    *)
(* occurs in it twice, none is removed, the completed counter equals its   *)
(* length, and its jobs are in non-decreasing completion_time order.       *)
C11_CompletedGrows ==
  [][ Running =>
        /\ Len(completed_jobs') >= Len(completed_jobs)
        /\ SubSeq(completed_jobs', 1, Len(completed_jobs)) = completed_jobs
        /\ NoDuplicates(completed_jobs')
        /\ num_jobs_completed' = Len(completed_jobs')
        /\ \A k \in 1 .. Len(completed_jobs') - 1 :
             job_list'[completed_jobs'[k]].completion_time
               <= job_list'[completed_jobs'[k + 1]].completion_time
    ]_vars

C11_Witness ==
  /\ Running
  /\ Len(completed_jobs) >= 2
  /\ \E r \in JobRefs : job_list[r].remaining_burst_time > 0
  /\ job_list[completed_jobs[1]].completion_time
       < job_list[completed_jobs[2]].completion_time

C13_TimesSetOnce ==
  [][ \A r \in JobRefs :
        LET old == job_list[r]
            new == job_list'[r]
        IN  /\ FirstRunSet(old) => new.first_time_running = old.first_time_running
            /\ (~FirstRunSet(old) /\ FirstRunSet(new)) =>
                 new.first_time_running = total_time
            /\ old.completion_time # -1 =>
                 new.completion_time = old.completion_time
            /\ (old.completion_time = -1 /\ new.completion_time # -1) =>
                 /\ new.completion_time = total_time'
                 /\ new.remaining_burst_time = 0
            /\ (old.remaining_burst_time > 0 /\ new.remaining_burst_time = 0) =>
                 new.completion_time = total_time'
    ]_vars

C13_Witness ==
  /\ schedule = "rr"
  /\ \E r \in JobRefs :
       /\ job_list[r].completion_time > job_list[r].first_time_running + job_list[r].total_run_time
       /\ job_list[r].first_time_running > job_list[r].arrival_time


Pool(jobs, time) ==
  { r \in 1 .. Len(jobs) : /\ jobs[r].arrival_time <= time
                           /\ jobs[r].remaining_burst_time > 0 }

(* the step runs a job for at least one tick (its label ends the trace) *)
ExecutedTick ==
  /\ Len(print_str') > Len(print_str)
  /\ print_str'[Len(print_str')] # Idle

(* the step is one idle tick *)
IdleTick ==
  /\ total_time' = total_time + 1
  /\ print_str' = Append(print_str, Idle)

(* SRTN is between two ticks, every arrived job is finished after an       *)
(* executed tick, and a job that arrives later is still to run             *)
SrtnGap ==
  /\ schedule = "srtn"
  /\ pc = "srtn"
  /\ ~job_list[scheduled].is_first_run
  /\ Pool(job_list, total_time) = { }
  /\ \E r \in JobRefs : /\ job_list[r].arrival_time > total_time
                        /\ job_list[r].remaining_burst_time > 0

(* C14: under SRTN, when after an executed tick the pool is empty while    *)
(* later arrivals are pending, the engine keeps the current job and the    *)
(* next loop iteration idle-advances the clock by one tick, so that the    *)
(* gap before the next arrival is crossed.                                 *)
C14_GapIdleAdvances ==
  SrtnGap =>
    LET s == srtn_body(St)
    IN  /\ s.scheduled = scheduled
        /\ s.total_time = total_time + 1
        /\ s.print_str = Append(print_str, Idle)

(* C15: under SRTN, after every executed tick ending at clock t with some  *)
(* arrived unfinished job, the job selected for the next tick has the      *)
(* least remaining burst among exactly those jobs, and among several with  *)
(* that least value it is the earliest in the job list.                    *)
C15_SelectsShortest ==
  [][ (pc = "srtn" /\ ExecutedTick /\ Pool(job_list', total_time') # { }) =>
        /\ scheduled' \in Pool(job_list', total_time')
        /\ \A r \in Pool(job_list', total_time') :
             \/ job_list'[scheduled'].remaining_burst_time
                  < job_list'[r].remaining_burst_time
             \/ /\ job_list'[scheduled'].remaining_burst_time
                     = job_list'[r].remaining_burst_time
                /\ scheduled' <= r
    ]_vars

(* a newly arrived job with a strictly shorter remaining burst has         *)
(* displaced a partly run job                                              *)
C15_Witness ==
  /\ schedule = "srtn"
  /\ pc = "srtn"
  /\ job_list[scheduled].is_first_run
  /\ job_list[scheduled].arrival_time = total_time
  /\ \E r \in JobRefs :
       /\ r # scheduled
       /\ job_list[r].remaining_burst_time < job_list[r].total_run_time
       /\ job_list[r].remaining_burst_time
            > job_list[scheduled].remaining_burst_time

(* C16: under round-robin with quantum q >= 1 every dispatch of an arrived *)
(* job with remaining burst r > 0 consumes exactly min(r, q) ticks: clock  *)
(* and remaining burst move by min(r, q), and the job completes in that    *)
(* visit if and only if r <= q.                                            *)
C16_SliceIsMin ==
  [][ (pc = "rr" /\ quantum >= 1) =>
        LET ref == current_job_index + 1
            job == job_list[ref]
            r == job.remaining_burst_time
            slice == IF r <= quantum THEN r ELSE quantum
        IN  (job.arrival_time <= total_time /\ r > 0) =>
              /\ total_time' = total_time + slice
              /\ job_list'[ref].remaining_burst_time = r - slice
              /\ print_str' = print_str \o Repeat(job.job_number, slice)
              /\ total_time' - total_time <= quantum
              /\ (r <= quantum) <=>
                   /\ completed_jobs' = Append(completed_jobs, ref)
                   /\ job_list'[ref].completion_time = total_time'
              /\ (r > quantum) => completed_jobs' = completed_jobs
    ]_vars

C16_Witness ==
  /\ schedule = "rr"
  /\ quantum >= 2
  /\ \E r \in JobRefs :
       /\ job_list[r].total_run_time > quantum
       /\ job_list[r].remaining_burst_time = 0
       /\ job_list[r].completion_time # -1


(* C17: under round-robin an idle-wait step advances the clock by 1 and    *)
(* leaves the index unchanged; every visit to an arrived job advances the  *)
(* index by one, wrapping from the last slot to slot 0; a visit to an      *)
(* already completed job changes nothing but the index.                    *)
C17_RrIndexFrame ==
  [][ pc = "rr" =>
        LET ref == current_job_index + 1
            job == job_list[ref]
        IN  IF total_time < job.arrival_time
            THEN /\ total_time' = total_time + 1
                 /\ current_job_index' = current_job_index
            ELSE /\ current_job_index' =
                      IF current_job_index = Len(job_list) - 1
                      THEN 0 ELSE current_job_index + 1
                 /\ (\E k \in 1 .. Len(completed_jobs) : completed_jobs[k] = ref) =>
                      /\ total_time' = total_time
                      /\ print_str' = print_str
                      /\ completed_jobs' = completed_jobs
                      /\ num_jobs_completed' = num_jobs_completed
                      /\ job_list' = job_list
    ]_vars

(* an idle wait has been taken with the index away from slot 0, and a      *)
(* completed job is about to be visited again                              *)
C17_Witness ==
  /\ schedule = "rr"
  /\ pc = "rr"
  /\ \E i \in 1 .. Len(print_str) : i > 1 /\ print_str[i] = Idle
  /\ \E k \in 1 .. Len(completed_jobs) : completed_jobs[k] = current_job_index + 1
  /\ job_list[current_job_index + 1].arrival_time <= total_time

(* C18 as stated: under round-robin an idle tick is taken at clock t only  *)
(* if no job with arrival_time <= t has remaining burst > 0 (looked at for *)
(* runs with a quantum >= 1, so that a failure is round-robin's own).      *)
C18_NeverIdleWithWorkReady ==
  [][ (pc = "rr" /\ quantum >= 1 /\ IdleTick) =>
        Pool(job_list, total_time) = { } ]_vars

(* C18 amended: under round-robin an idle tick is taken at clock t only if *)
(* the job at the current index, and every job after it in the list, has   *)
(* not arrived by t; jobs before it may be ready and are left waiting.     *)
C18_IdleOnlyBeforeArrival ==
  [][ (pc = "rr" /\ IdleTick) =>
        \A r \in JobRefs :
          r >= current_job_index + 1 => job_list[r].arrival_time > total_time
    ]_vars

(* an idle tick has just been taken while an earlier job was ready *)
C18_Witness ==
  /\ schedule = "rr"
  /\ pc = "rr"
  /\ quantum >= 1
  /\ Len(print_str) > 0
  /\ print_str[Len(print_str)] = Idle
  /\ job_list[current_job_index + 1].is_first_run
  /\ \E r \in JobRefs :
       /\ r < current_job_index + 1
       /\ job_list[r].arrival_time <= total_time - 1
       /\ job_list[r].remaining_burst_time > 0

(* C19: under SRTN the job that runs in an executed tick starting at clock *)
(* t, the first tick included, has the least remaining burst among the     *)
(* jobs with arrival_time <= t and remaining burst > 0.                    *)
C19_RunsShortest ==
  [][ (pc = "srtn" /\ ExecutedTick) =>
        /\ scheduled \in Pool(job_list, total_time)
        /\ \A r \in Pool(job_list, total_time) :
             job_list[scheduled].remaining_burst_time
               <= job_list[r].remaining_burst_time
    ]_vars

(* the idle ticks of the trace *)
IdleTicks(trace) == Cardinality({ i \in 1 .. Len(trace) : trace[i] = Idle })

(* the burst time the jobs have consumed *)
WorkDone(jobs) ==
  Sum([ r \in 1 .. Len(jobs) |->
          jobs[r].total_run_time - jobs[r].remaining_burst_time ])

(* C20: under every policy (round-robin with quantum >= 1) the clock       *)
(* starts at 0, never decreases, and at every loop boundary equals the     *)
(* idle ticks so far plus the burst time consumed by all jobs.             *)
C20_ClockAccounts ==
  /\ total_time = 0
  /\ [][ (schedule' = "rr" => quantum' >= 1) =>
           /\ total_time' >= total_time
           /\ total_time' = IdleTicks(print_str') + WorkDone(job_list')
       ]_vars

C20_Witness ==
  /\ Running
  /\ IdleTicks(print_str) > 0
  /\ WorkDone(job_list) > 0
  /\ \E r \in JobRefs :
       /\ 0 < job_list[r].remaining_burst_time
       /\ job_list[r].remaining_burst_time < job_list[r].total_run_time

====
